---- MODULE Spec2Model ----
(***************************************************************************)
(* AccuWeatherClient (src/src/accuweather-client.ts): one invocation of    *)
(* one of its four operations, the outbound requests it issues, the        *)
(* provider's answers, the 30 s abort timers and the promise each          *)
(* operation settles.  Synchronous code between two awaits is one step.    *)
(* The two tools of the server (src/unnamed/part_000) call the client: one *)
(* tool invocation, its coordinate defaults and the document it returns.   *)
(***************************************************************************)
EXTENDS Integers, Sequences, FiniteSets, TLC

(***************************************************************************)
(* Bounds of the model.                                                    *)
(***************************************************************************)
\* longest DailyForecasts list the provider answers with
MaxList == 3
\* the clock advances by at most this many ms in one step
TickMs == 15000
\* the clock stops here, when no timer can be armed any more: the second
\* stage is issued by 30 s and its timers are due by 60 s
MaxTime == 60000

(***************************************************************************)
(* JavaScript values.  A finite number is the rational num/den (den > 0,   *)
(* lowest terms), so that 2.5 and -1.2864 are numbers of the model.        *)
(***************************************************************************)
Undefined == [t |-> "undefined"]
Null == [t |-> "null"]
NaN == [t |-> "number", kind |-> "NaN"]
PosInf == [t |-> "number", kind |-> "Infinity"]
NegInf == [t |-> "number", kind |-> "-Infinity"]
Rat(n, d) == [t |-> "number", kind |-> "finite", num |-> n, den |-> d]
Num(n) == Rat(n, 1)
Str(s) == [t |-> "string", s |-> s]

\* typeof v
typeOf(v) == IF v.t = "null" THEN "object" ELSE v.t

\* isNaN(v): v is coerced to a number first, and Number(undefined) is NaN
isNaN(v) ==
  CASE v.t = "number" -> v.kind = "NaN"
    [] v.t = "undefined" -> TRUE
    [] OTHER -> FALSE

\* a < b on numbers: false as soon as one side is NaN
Lt(a, b) ==
  /\ a.t = "number" /\ b.t = "number"
  /\ a.kind # "NaN" /\ b.kind # "NaN"
  /\ CASE a.kind = "Infinity" -> FALSE
       [] a.kind = "-Infinity" -> b.kind # "-Infinity"
       [] b.kind = "Infinity" -> TRUE
       [] b.kind = "-Infinity" -> FALSE
       [] OTHER -> a.num * b.den < b.num * a.den

\* a > b
Gt(a, b) == Lt(b, a)

\* !v
Falsy(v) ==
  CASE v.t \in {"undefined", "null"} -> TRUE
    [] v.t = "string" -> v.s = ""
    [] v.t = "number" -> v.kind = "NaN" \/ (v.kind = "finite" /\ v.num = 0)
    [] OTHER -> FALSE

\* Array.isArray(v)
IsArray(v) == v.t = "array"

Min2(a, b) == IF a <= b THEN a ELSE b
Max2(a, b) == IF a >= b THEN a ELSE b

\* the integer part of a finite number, rounding toward zero
Trunc(v) == IF v.num >= 0 THEN v.num \div v.den ELSE -((-v.num) \div v.den)

\* the index Array.prototype.slice(0, end) stops before, for an array of len
SliceEnd(end, len) ==
  CASE end.t = "undefined" -> len
    [] end.kind = "NaN" -> 0
    [] end.kind = "Infinity" -> len
    [] end.kind = "-Infinity" -> 0
    [] OTHER -> IF Trunc(end) < 0 THEN Max2(len + Trunc(end), 0)
                ELSE Min2(Trunc(end), len)

\* mutant: the list as the provider sent it, not cut to the day count
Slice0_NoTruncation(list, end) == list

\* mutant: slice(0, end - 1)
Slice0_OffByOne(list, end) == SubSeq(list, 1, SliceEnd(end, Len(list)) - 1)

\* list.slice(0, end)
Slice0(list, end) == SubSeq(list, 1, SliceEnd(end, Len(list)))

\* a string kept as the sequence of its pieces: the characters of a header
\* value, or the runs of a date with each 'T' a piece of its own
Text(pieces) == [t |-> "string", pieces |-> pieces]

IndexesOf(s, piece) == {i \in 1..Len(s) : s[i] = piece}
\* the smallest element of a set of integers
SetMin(S) == CHOOSE x \in S : \A y \in S : x <= y

\* mutant: the date as the provider sent it
Split0_Whole(text, sep) == text

\* text.split(sep)[0]: what stands before the first sep, all of it without one
Split0(text, sep) ==
  IF IndexesOf(text.pieces, sep) = {} THEN text
  ELSE Text(SubSeq(text.pieces, 1, SetMin(IndexesOf(text.pieces, sep)) - 1))

DecimalDigits == <<"0", "1", "2", "3", "4", "5", "6", "7", "8", "9">>
IsDigit(ch) == \E i \in 1..10 : DecimalDigits[i] = ch
DigitValue(ch) == (CHOOSE i \in 1..10 : DecimalDigits[i] = ch) - 1

RECURSIVE SpaceRun(_, _)
\* the number of blanks s holds from position i on
SpaceRun(s, i) ==
  IF i <= Len(s) /\ s[i] = " " THEN 1 + SpaceRun(s, i + 1) ELSE 0

RECURSIVE DigitRun(_, _)
\* the number of digits s holds from position i on
DigitRun(s, i) ==
  IF i <= Len(s) /\ IsDigit(s[i]) THEN 1 + DigitRun(s, i + 1) ELSE 0

RECURSIVE DigitsValue(_)
\* the value of a sequence of digits, 0 for the empty one
DigitsValue(s) ==
  IF s = <<>> THEN 0
  ELSE 10 * DigitsValue(SubSeq(s, 1, Len(s) - 1)) + DigitValue(s[Len(s)])

RECURSIVE Pow10(_)
Pow10(n) == IF n = 0 THEN 1 ELSE 10 * Pow10(n - 1)

RECURSIVE GCD(_, _)
GCD(a, b) == IF b = 0 THEN a ELSE GCD(b, a % b)

\* the number n/d (n >= 0, d > 0) with sign, in lowest terms
Fraction(negative, n, d) ==
  Rat((IF negative THEN -1 ELSE 1) * (n \div GCD(n, d)), d \div GCD(n, d))

\* parseFloat(s): leading blanks, a sign, digits, a point and digits; what
\* follows is ignored, and NaN without a digit.  (Exponents and the word
\* Infinity are not read: no header of the model holds one.)
ParseFloat(s) ==
  LET b == SpaceRun(s, 1) + 1
      signed == b <= Len(s) /\ s[b] \in {"-", "+"}
      i == IF signed THEN b + 1 ELSE b
      ni == DigitRun(s, i)
      point == i + ni <= Len(s) /\ s[i + ni] = "."
      nf == IF point THEN DigitRun(s, i + ni + 1) ELSE 0
      whole == DigitsValue(SubSeq(s, i, i + ni - 1))
      frac == DigitsValue(SubSeq(s, i + ni + 1, i + ni + nf))
  IN IF ni + nf = 0 THEN NaN
     ELSE Fraction(signed /\ s[b] = "-", whole * Pow10(nf) + frac, Pow10(nf))

\* mutant: a || b, which also passes over 0 and NaN
Coalesce_Or(a, b) == IF Falsy(a) THEN b ELSE a

\* a ?? b
Coalesce(a, b) == IF a.t \in {"undefined", "null"} THEN b ELSE a

(***************************************************************************)
(* Errors, by the message the code builds.                                 *)
(***************************************************************************)
InvalidLatitudeError(lat) ==
  [name |-> "Error", message |-> "Invalid latitude: ${lat}", arg |-> lat]
InvalidLongitudeError(lon) ==
  [name |-> "Error", message |-> "Invalid longitude: ${lon}", arg |-> lon]
InvalidLocationKeyError ==
  [name |-> "Error", message |-> "Invalid location key"]
InvalidDaysError(days) ==
  [name |-> "Error",
   message |-> "Invalid number of days: ${days}. Must be between 1 and 15.",
   arg |-> days]
TimeoutError ==
  [name |-> "Error",
   message |-> "Request timeout: AccuWeather API took too long to respond (30s limit)"]
ApiError(status) ==
  [name |-> "Error",
   message |-> "AccuWeather API error (${response.status}): ${errorText || response.statusText}",
   status |-> status]
MissingKeyError ==
  [name |-> "Error", message |-> "Invalid API response: missing location key"]
MissingConditionsError ==
  [name |-> "Error", message |-> "Invalid API response: missing current conditions"]
MissingForecastsError ==
  [name |-> "Error", message |-> "Invalid API response: missing daily forecasts"]
LocationDetailsError(status) ==
  [name |-> "Error",
   message |-> "Failed to get location details: ${locationResponse.status}",
   status |-> status]
\* console.log reads data.Country.LocalizedName of a body without Country
CountryTypeError ==
  [name |-> "TypeError",
   message |-> "Cannot read properties of undefined (reading 'LocalizedName')"]
\* node-fetch rejects with a FetchError when the request fails on the network
NetworkError == [name |-> "FetchError", message |-> "request failed"]
\* node-fetch rejects with an AbortError when the signal aborts
AbortError == [name |-> "AbortError", message |-> "The user aborted a request."]

\* the spec's name for an error of the client
ErrorKind(e) ==
  CASE e.name # "Error" -> e.name
    [] e.message \in {InvalidLatitudeError(NaN).message,
                      InvalidLongitudeError(NaN).message,
                      InvalidLocationKeyError.message,
                      InvalidDaysError(NaN).message} -> "InvalidArgument"
    [] e.message = TimeoutError.message -> "UpstreamTimeout"
    [] e.message \in {ApiError(0).message,
                      LocationDetailsError(0).message} -> "UpstreamError"
    [] e.message \in {MissingKeyError.message, MissingConditionsError.message,
                      MissingForecastsError.message} -> "UpstreamProtocolError"
    [] OTHER -> "Error"

(***************************************************************************)
(* Promises.                                                               *)
(***************************************************************************)
NotStarted == [st |-> "none"]
Pending == [st |-> "pending"]
Fulfilled(v) == [st |-> "fulfilled", value |-> v]
Rejected(e) == [st |-> "rejected", reason |-> e]

(***************************************************************************)
(* The provider's answers.                                                 *)
(***************************************************************************)
\* the 30000 of setTimeout(() => controller.abort(), 30000)
TIMEOUT_MS == 30000

\* the client's outbound calls: geoposition search, current conditions,
\* daily forecast, location details
Calls == {"key", "cond", "fc", "det"}
\* the order the code issues them in
CallOrder == <<"key", "cond", "fc", "det">>
\* the calls made with an AbortController and a timer
TimedCalls == {"key", "cond", "fc"}

Arr(items) == [t |-> "array", items |-> items]
Obj == [t |-> "object"]
Location(key, country) == [t |-> "object", Key |-> key, Country |-> country]

\* response.ok of node-fetch
Ok(resp) == resp.status >= 200 /\ resp.status <= 299

ErrorStatuses == {401, 503}
ErrorResponses == {[status |-> s, body |-> Null] : s \in ErrorStatuses}
OkResponses(bodies) == {[status |-> 200, body |-> b] : b \in bodies}

LocationBodies ==
  {Null, Location(Undefined, Obj), Location(Str(""), Obj),
   Location(Str("K1"), Undefined), Location(Str("K1"), Obj)}

Conditions(text) == [t |-> "object", WeatherText |-> text]
ConditionsBodies ==
  {Null, Obj, Arr(<<>>), Arr(<<Conditions("Sunny")>>),
   Arr(<<Conditions("Rain"), Conditions("Sunny")>>)}

Forecast(date) == [t |-> "object", Date |-> date]
ForecastEntries ==
  {Forecast(Text(<<"2025-11-05", "T", "07:00:00+03:00">>)),
   Forecast(Text(<<"2025-11-06", "T", "07:00:00 EA", "T">>))}
ForecastLists == UNION {[1..n -> ForecastEntries] : n \in 0..MaxList}
ForecastBodies ==
  {Null, [t |-> "object", DailyForecasts |-> Undefined],
   [t |-> "object", DailyForecasts |-> Str("none")]}
  \cup {[t |-> "object", DailyForecasts |-> Arr(l)] : l \in ForecastLists}

DetailsBodies == {Null, Location(Str("K1"), Obj)}

Responses(c) ==
  ErrorResponses \cup
  OkResponses(CASE c = "key" -> LocationBodies
                [] c = "cond" -> ConditionsBodies
                [] c = "fc" -> ForecastBodies
                [] OTHER -> DetailsBodies)

(***************************************************************************)
(* The operations of the client, each cut at its await.                    *)
(***************************************************************************)
\* catch (error): an AbortError becomes the timeout error, the rest is rethrown
Catch(p) ==
  IF p.st = "rejected" /\ p.reason.name = "AbortError"
  THEN Rejected(TimeoutError)
  ELSE p

\* mutant: the range checks without the isNaN tests
getLocationKeyStart_NoNaNCheck(lat, lon) ==
  IF typeOf(lat) # "number" \/ Lt(lat, Num(-90)) \/ Gt(lat, Num(90))
  THEN Rejected(InvalidLatitudeError(lat))
  ELSE IF typeOf(lon) # "number" \/ Lt(lon, Num(-180)) \/ Gt(lon, Num(180))
  THEN Rejected(InvalidLongitudeError(lon))
  ELSE Pending

\* getLocationKey up to its fetch: Pending when the request is issued
getLocationKeyStart(lat, lon) ==
  IF typeOf(lat) # "number" \/ isNaN(lat) \/ Lt(lat, Num(-90)) \/ Gt(lat, Num(90))
  THEN Rejected(InvalidLatitudeError(lat))
  ELSE IF typeOf(lon) # "number" \/ isNaN(lon) \/ Lt(lon, Num(-180)) \/ Gt(lon, Num(180))
  THEN Rejected(InvalidLongitudeError(lon))
  ELSE Pending

\* getLocationKey from the provider's response on
getLocationKeyOnResponse(resp) ==
  IF ~Ok(resp) THEN Rejected(ApiError(resp.status))
  ELSE IF Falsy(resp.body) \/ Falsy(resp.body.Key) THEN Rejected(MissingKeyError)
  ELSE IF resp.body.Country = Undefined THEN Rejected(CountryTypeError)
  ELSE Fulfilled(resp.body.Key)

\* getCurrentConditions up to its fetch
getCurrentConditionsStart(locationKey) ==
  IF Falsy(locationKey) \/ typeOf(locationKey) # "string"
  THEN Rejected(InvalidLocationKeyError)
  ELSE Pending

\* mutant: the body is read whatever response.ok says
getCurrentConditionsOnResponse_NoStatusCheck(resp) ==
  IF Falsy(resp.body) \/ ~IsArray(resp.body) \/ Len(resp.body.items) = 0
  THEN Rejected(MissingConditionsError)
  ELSE Fulfilled(resp.body.items[1])

\* getCurrentConditions from the provider's response on
getCurrentConditionsOnResponse(resp) ==
  IF ~Ok(resp) THEN Rejected(ApiError(resp.status))
  ELSE IF Falsy(resp.body) \/ ~IsArray(resp.body) \/ Len(resp.body.items) = 0
  THEN Rejected(MissingConditionsError)
  ELSE Fulfilled(resp.body.items[1])

\* a parameter declared days = 5
DefaultDays(days) == IF days = Undefined THEN Num(5) ELSE days

\* mutant: the day count checked against its lower bound only
getForecastStart_NoUpperBound(locationKey, days) ==
  IF Falsy(locationKey) \/ typeOf(locationKey) # "string"
  THEN Rejected(InvalidLocationKeyError)
  ELSE IF typeOf(DefaultDays(days)) # "number" \/ Lt(DefaultDays(days), Num(1))
  THEN Rejected(InvalidDaysError(DefaultDays(days)))
  ELSE Pending

\* getForecast up to its fetch
getForecastStart(locationKey, days) ==
  IF Falsy(locationKey) \/ typeOf(locationKey) # "string"
  THEN Rejected(InvalidLocationKeyError)
  ELSE IF typeOf(DefaultDays(days)) # "number"
          \/ Lt(DefaultDays(days), Num(1)) \/ Gt(DefaultDays(days), Num(15))
  THEN Rejected(InvalidDaysError(DefaultDays(days)))
  ELSE Pending

\* mutant: (data.DailyForecasts || []).slice(0, days), no check of the field
getForecastOnResponse_DefaultEmptyList(resp, days) ==
  IF ~Ok(resp) THEN Rejected(ApiError(resp.status))
  ELSE IF Falsy(resp.body) THEN Rejected(MissingForecastsError)
  ELSE IF ~IsArray(resp.body.DailyForecasts) THEN Fulfilled(<<>>)
  ELSE Fulfilled(Slice0(resp.body.DailyForecasts.items, DefaultDays(days)))

\* getForecast from the provider's response on
getForecastOnResponse(resp, days) ==
  IF ~Ok(resp) THEN Rejected(ApiError(resp.status))
  ELSE IF Falsy(resp.body) \/ Falsy(resp.body.DailyForecasts)
          \/ ~IsArray(resp.body.DailyForecasts)
  THEN Rejected(MissingForecastsError)
  ELSE Fulfilled(Slice0(resp.body.DailyForecasts.items, DefaultDays(days)))

\* mutant: a failed forecast is replaced by an empty one, as allSettled would
PromiseAll_ForecastOptional(pc, pf) ==
  IF pc.st = "rejected" THEN Rejected(pc.reason)
  ELSE IF pc.st = "fulfilled" /\ pf.st \in {"fulfilled", "rejected"}
  THEN Fulfilled(<<pc.value, IF pf.st = "fulfilled" THEN pf.value ELSE <<>> >>)
  ELSE Pending

\* Promise.all([current, forecast]) once an event has been handled
PromiseAll(pc, pf) ==
  IF pc.st = "rejected" THEN Rejected(pc.reason)
  ELSE IF pf.st = "rejected" THEN Rejected(pf.reason)
  ELSE IF pc.st = "fulfilled" /\ pf.st = "fulfilled"
  THEN Fulfilled(<<pc.value, pf.value>>)
  ELSE Pending

\* getWeatherForecast from the end of the location-details fetch on
LocationDetailsStep(p) ==
  IF p["det"].st = "rejected"
  THEN [promise |-> p, result |-> Rejected(p["det"].reason), issue |-> {}]
  ELSE IF ~Ok(p["det"].value)
  THEN [promise |-> p,
        result |-> Rejected(LocationDetailsError(p["det"].value.status)),
        issue |-> {}]
  ELSE [promise |-> p,
        result |-> Fulfilled([location |-> p["det"].value.body,
                              current |-> PromiseAll(p["cond"], p["fc"]).value[1],
                              forecast |-> PromiseAll(p["cond"], p["fc"]).value[2]]),
        issue |-> {}]

\* mutant: current conditions awaited before getForecast is called
getWeatherForecastStep_Sequential(a, p, r, c) ==
  CASE c = "key" ->
         IF p["key"].st = "rejected"
         THEN [promise |-> p, result |-> Rejected(p["key"].reason), issue |-> {}]
         ELSE LET pc == getCurrentConditionsStart(p["key"].value)
              IN [promise |-> [p EXCEPT !["cond"] = pc],
                  result |-> IF pc.st = "rejected" THEN Rejected(pc.reason)
                             ELSE Pending,
                  issue |-> {d \in {"cond"} : pc.st = "pending"}]
    [] c = "cond" ->
         IF p["cond"].st = "rejected"
         THEN [promise |-> p, result |-> Rejected(p["cond"].reason), issue |-> {}]
         ELSE LET pf == getForecastStart(p["key"].value, DefaultDays(a.days))
              IN [promise |-> [p EXCEPT !["fc"] = pf],
                  result |-> IF pf.st = "rejected" THEN Rejected(pf.reason)
                             ELSE Pending,
                  issue |-> {d \in {"fc"} : pf.st = "pending"}]
    [] c = "fc" ->
         IF p["fc"].st = "rejected"
         THEN [promise |-> p, result |-> Rejected(p["fc"].reason), issue |-> {}]
         ELSE [promise |-> [p EXCEPT !["det"] = Pending], result |-> Pending,
               issue |-> {"det"}]
    [] OTHER -> LocationDetailsStep(p)

\* getWeatherForecast after the promise of call c settled: p the promises, r
\* its own promise, a its arguments.  Gives the promises, its promise and the
\* calls it issues.
getWeatherForecastStep(a, p, r, c) ==
  CASE c = "key" ->
         IF p["key"].st = "rejected"
         THEN [promise |-> p, result |-> Rejected(p["key"].reason), issue |-> {}]
         ELSE LET pc == getCurrentConditionsStart(p["key"].value)
                  pf == getForecastStart(p["key"].value, DefaultDays(a.days))
              IN [promise |-> [p EXCEPT !["cond"] = pc, !["fc"] = pf],
                  result |-> IF PromiseAll(pc, pf).st = "rejected"
                             THEN PromiseAll(pc, pf) ELSE Pending,
                  issue |-> {d \in {"cond"} : pc.st = "pending"}
                            \cup {d \in {"fc"} : pf.st = "pending"}]
    [] c \in {"cond", "fc"} ->
         IF r.st # "pending" THEN [promise |-> p, result |-> r, issue |-> {}]
         ELSE IF PromiseAll(p["cond"], p["fc"]).st = "fulfilled"
         THEN [promise |-> [p EXCEPT !["det"] = Pending], result |-> Pending,
               issue |-> {"det"}]
         ELSE [promise |-> p, result |-> PromiseAll(p["cond"], p["fc"]),
               issue |-> {}]
    [] OTHER -> LocationDetailsStep(p)

(***************************************************************************)
(* The two tools of the server (src/unnamed/part_000), each handler cut at *)
(* its awaits.  A handler is an async function: its promise is fulfilled   *)
(* with the document it returns and rejected by an exception it lets out.  *)
(***************************************************************************)
ForecastTool == "get_accuweather_weather_forecast"
ConditionsTool == "get_accuweather_current_conditions"

NAIROBI_LAT == Rat(-804, 625)
NAIROBI_LON == Rat(92043, 2500)

\* headerLat ? parseFloat(headerLat) : undefined, of a header that may be absent
DefaultCoordinate(header) ==
  IF header.t = "undefined" \/ header.pieces = <<>> THEN Undefined
  ELSE ParseFloat(header.pieces)

\* latitude ?? defaultLatitude ?? NAIROBI_LAT
ResolveCoordinate(argument, header, fallback) ==
  Coalesce(Coalesce(argument, DefaultCoordinate(header)), fallback)

\* a tool invocation: its arguments, the headers of its request, whether the
\* server holds a client (ACCUWEATHER_API_KEY set), the coordinate and the day
\* count the handler works with, and the handler's promise
ToolInvocation(name, latitude, longitude, days, headerLat, headerLon, configured) ==
  [name |-> name, latitude |-> latitude, longitude |-> longitude,
   headerLat |-> headerLat, headerLon |-> headerLon, configured |-> configured,
   lat |-> ResolveCoordinate(latitude, headerLat, NAIROBI_LAT),
   lon |-> ResolveCoordinate(longitude, headerLon, NAIROBI_LON),
   days |-> DefaultDays(days),
   handler |-> Pending]

NoTool == [name |-> "none"]

\* a document of failure; its text is kept as the pieces it is built from
ErrorDoc(text) ==
  [content |-> <<[type |-> "text", text |-> text]>>, isError |-> TRUE]
\* a document of success; its text, JSON.stringify(response), is kept as the
\* document it encodes, whose numbers are finite and whose dates are strings
SuccessDoc(response) == [content |-> <<[type |-> "text", json |-> response]>>]

ServiceUnavailableDoc ==
  ErrorDoc(<<"I'm having trouble connecting to the weather data service. Try again in a moment?">>)

\* error.message || 'Try again in a moment?'
MessageOf(e) == IF e.message = "" THEN "Try again in a moment?" ELSE e.message

\* try { ... } catch (error: any) { return the failure document }
TryCatch(p, apology) ==
  IF p.st = "rejected"
  THEN Fulfilled(ErrorDoc(<<apology, MessageOf(p.reason)>>))
  ELSE p

NullLocationTypeError ==
  [name |-> "TypeError",
   message |-> "Cannot read properties of null (reading 'LocalizedName')"]
NoFirstEntryTypeError ==
  [name |-> "TypeError",
   message |-> "Cannot read properties of undefined (reading 'date')"]

\* the forecast handler up to its await: a document when it returns at once
ForecastToolStart(t) ==
  IF typeOf(t.lat) # "number" \/ isNaN(t.lat)
     \/ Lt(t.lat, Num(-90)) \/ Gt(t.lat, Num(90))
  THEN Fulfilled(ErrorDoc(<<"Invalid latitude coordinate. Please provide a valid latitude between -90 and 90.">>))
  ELSE IF typeOf(t.lon) # "number" \/ isNaN(t.lon)
          \/ Lt(t.lon, Num(-180)) \/ Gt(t.lon, Num(180))
  THEN Fulfilled(ErrorDoc(<<"Invalid longitude coordinate. Please provide a valid longitude between -180 and 180.">>))
  ELSE IF typeOf(t.days) # "number" \/ Lt(t.days, Num(1)) \/ Gt(t.days, Num(15))
  THEN Fulfilled(ErrorDoc(<<"Invalid number of days. Please provide a value between 1 and 15.">>))
  ELSE IF ~t.configured THEN Fulfilled(ServiceUnavailableDoc)
  ELSE Pending

\* period of the response: forecast[0].date and forecast[forecast.length - 1].date
PeriodOf(days, forecast) ==
  [days |-> days,
   start_date |-> forecast[1].date,
   end_date |-> forecast[Len(forecast)].date]

\* the shaping of a bundle: the dates mapped first, then the response built
\* field by field; reading a field of null or of undefined throws.  The weather
\* fields the provider's entries carry are left out.
ShapeForecast(t, data) ==
  LET forecast == [i \in 1..Len(data.forecast) |->
                     [date |-> Split0(data.forecast[i].Date, "T")]]
  IN IF data.location.t \in {"null", "undefined"}
     THEN Rejected(NullLocationTypeError)
     ELSE IF forecast = <<>> THEN Rejected(NoFirstEntryTypeError)
     ELSE Fulfilled(SuccessDoc(
            [location |-> [latitude |-> t.lat, longitude |-> t.lon],
             current |-> [conditions |-> data.current.WeatherText],
             period |-> PeriodOf(t.days, forecast),
             forecast |-> forecast,
             data_source |-> "AccuWeather API"]))

\* the forecast handler once getWeatherForecast has settled as r
ForecastToolOnResult(t, r) ==
  TryCatch(IF r.st = "fulfilled" THEN ShapeForecast(t, r.value) ELSE r,
           "I'm having trouble getting weather data right now.")

\* the conditions handler up to its first await
ConditionsToolStart(t) ==
  IF ~t.configured THEN Fulfilled(ServiceUnavailableDoc) ELSE Pending

\* the shaping of current conditions; precipitation_type defaults to 'none'
ShapeConditions(t, current) ==
  Fulfilled(SuccessDoc(
    [location |-> [latitude |-> t.lat, longitude |-> t.lon],
     current |-> [conditions |-> current.WeatherText,
                  precipitation_type |->
                    IF "PrecipitationType" \in DOMAIN current
                       /\ ~Falsy(current.PrecipitationType)
                    THEN current.PrecipitationType ELSE Str("none")],
     data_source |-> "AccuWeather API"]))

\* the conditions handler once getLocationKey has failed or
\* getCurrentConditions has settled as r
ConditionsToolOnResult(t, r) ==
  TryCatch(IF r.st = "fulfilled" THEN ShapeConditions(t, r.value) ELSE r,
           "I'm having trouble getting current weather conditions.")

\* the handler of tool t after the client took step s of operation o with
\* arguments a: it goes on when the operation it awaits has settled
ToolContinue(t, o, a, s) ==
  LET same == [op |-> o, args |-> a, promise |-> s.promise,
               result |-> s.result, issue |-> s.issue, tool |-> t]
  IN CASE t.name = "none" -> same
       [] t.handler.st # "pending" \/ s.result.st = "pending" -> same
       [] t.name = ForecastTool ->
            [same EXCEPT !.tool.handler = ForecastToolOnResult(t, s.result)]
       [] o = "getLocationKey" /\ s.result.st = "fulfilled" ->
            LET pc == getCurrentConditionsStart(s.result.value)
            IN [op |-> "getCurrentConditions",
                args |-> [a EXCEPT !.locationKey = s.result.value],
                promise |-> [s.promise EXCEPT !["cond"] = pc],
                result |-> pc,
                issue |-> {d \in {"cond"} : pc.st = "pending"},
                tool |-> IF pc.st = "pending" THEN t
                         ELSE [t EXCEPT !.handler = ConditionsToolOnResult(t, pc)]]
       [] OTHER ->
            [same EXCEPT !.tool.handler = ConditionsToolOnResult(t, s.result)]

(***************************************************************************)
(* The state: one client, one invocation of an operation or of a tool.     *)
(***************************************************************************)
VARIABLES
  op,        \* the operation invoked, "idle" before
  args,      \* its arguments: lat, lon, locationKey, days
  fetchSt,   \* per call: "none", "pending", "resolved", "rejected", "aborted"
  issuedAt,  \* per call: the time its request was issued
  timer,     \* per call: "none", "armed", "cleared", "fired"
  response,  \* per call: the provider's response, Undefined before
  promise,   \* per call: the promise of the operation (for det: of the fetch)
  result,    \* the promise of the operation invoked
  requests,  \* the calls issued so far, in order
  now,       \* the clock, in ms
  tool       \* the tool invocation served, NoTool when the client is called directly

vars ==
  <<op, args, fetchSt, issuedAt, timer, response, promise, result, requests, now,
    tool>>

\* the arguments callers pass
Lats ==
  {NaN, NegInf, PosInf, Rat(-181, 2), Num(-90), Num(90), Num(91)}
Lons ==
  {NaN, NegInf, PosInf, Num(-181), Num(180), Rat(361, 2)}
Keys == {Str(""), Str("K1")}
Days ==
  {Undefined, NaN, PosInf, Num(0), Rat(1, 2), Num(1), Num(2), Rat(5, 2),
   Num(15), Rat(31, 2), Num(16)}

NoArgs ==
  [lat |-> Undefined, lon |-> Undefined, locationKey |-> Undefined,
   days |-> Undefined]

\* what the tools are called with: arguments the schema lets through (a number
\* of the range, or none), the two headers, and the server with or without key
ToolLats == {Undefined, Num(0)}
ToolLons == {Undefined, Num(180)}
ToolDays == {Undefined}
HeaderLats ==
  {Undefined, Text(<<>>), Text(<<"x">>), Text(<<" ", "-", "1", ".", "5", "S">>)}
HeaderLons == {Undefined, Text(<<"0">>)}

Init ==
  /\ op = "idle"
  /\ args = NoArgs
  /\ fetchSt = [c \in Calls |-> "none"]
  /\ issuedAt = [c \in Calls |-> 0]
  /\ timer = [c \in Calls |-> "none"]
  /\ response = [c \in Calls |-> Undefined]
  /\ promise = [c \in Calls |-> NotStarted]
  /\ result = NotStarted
  /\ requests = <<>>
  /\ now = 0
  /\ tool = NoTool

\* the first call of an operation
FirstCall(o) ==
  CASE o = "getCurrentConditions" -> "cond"
    [] o = "getForecast" -> "fc"
    [] OTHER -> "key"

\* an operation up to its first await
StartOf(o, a) ==
  CASE o = "getCurrentConditions" -> getCurrentConditionsStart(a.locationKey)
    [] o = "getForecast" -> getForecastStart(a.locationKey, a.days)
    [] OTHER -> getLocationKeyStart(a.lat, a.lon)

\* mutant: a request that failed on the network is issued a second time
Continue_RetryOnNetworkError(o, a, p, r, c) ==
  IF p[c].st = "rejected" /\ p[c].reason.name = "FetchError"
  THEN [promise |-> [p EXCEPT ![c] = Pending], result |-> r, issue |-> {c}]
  ELSE IF o = "getWeatherForecast" THEN getWeatherForecastStep(a, p, r, c)
  ELSE [promise |-> p, result |-> p[c], issue |-> {}]

\* what the caller of call c's operation does once its promise settled
Continue(o, a, p, r, c) ==
  IF o = "getWeatherForecast" THEN getWeatherForecastStep(a, p, r, c)
  ELSE [promise |-> p, result |-> p[c], issue |-> {}]

\* call c0 ends its fetch in state st0, timer tm0, response resp0; the calls of
\* S are issued, a timer armed for each timed one
Effect(c0, st0, tm0, resp0, S) ==
  /\ fetchSt' = [c \in Calls |-> IF c \in S THEN "pending"
                                 ELSE IF c = c0 THEN st0 ELSE fetchSt[c]]
  /\ timer' = [c \in Calls |-> IF c \in S
                               THEN (IF c \in TimedCalls THEN "armed" ELSE "none")
                               ELSE IF c = c0 THEN tm0 ELSE timer[c]]
  /\ issuedAt' = [c \in Calls |-> IF c \in S THEN now ELSE issuedAt[c]]
  /\ response' = [c \in Calls |-> IF c = c0 THEN resp0 ELSE response[c]]
  /\ requests' = requests \o SelectSeq(CallOrder, LAMBDA c : c \in S)

\* operation o is called with arguments a, by the handler of tool t or (NoTool)
\* by the caller; it runs up to its first await, and when it has settled by
\* then the handler goes on
Start(o, a, t) ==
  /\ LET c == FirstCall(o)
         p == [promise EXCEPT ![c] = StartOf(o, a)]
         s == IF p[c].st = "pending"
              THEN [promise |-> p, result |-> Pending, issue |-> {c}]
              ELSE Continue(o, a, p, Pending, c)
         n == ToolContinue(t, o, a, s)
     IN /\ op' = n.op
        /\ args' = n.args
        /\ promise' = n.promise
        /\ result' = n.result
        /\ tool' = n.tool
        /\ Effect("none", "none", "none", Undefined, n.issue)
  /\ UNCHANGED now

\* the caller invokes operation o with arguments a
Invoke(o, a) ==
  /\ op = "idle"
  /\ tool = NoTool
  /\ Start(o, a, NoTool)

InvokeGetLocationKey ==
  \E lat \in Lats, lon \in Lons :
    Invoke("getLocationKey", [NoArgs EXCEPT !.lat = lat, !.lon = lon])

InvokeGetCurrentConditions ==
  \E k \in Keys :
    Invoke("getCurrentConditions", [NoArgs EXCEPT !.locationKey = k])

InvokeGetForecast ==
  \E k \in Keys, d \in Days :
    Invoke("getForecast", [NoArgs EXCEPT !.locationKey = k, !.days = d])

InvokeGetWeatherForecast ==
  \E lat \in Lats, lon \in Lons, d \in Days :
    Invoke("getWeatherForecast",
           [NoArgs EXCEPT !.lat = lat, !.lon = lon, !.days = d])

\* tool invocation t, its handler run up to where it returns or awaits the
\* client's operation o called with arguments a
InvokeTool(t, o, a) ==
  /\ op = "idle"
  /\ tool = NoTool
  /\ IF t.handler.st = "pending" THEN Start(o, a, t)
     ELSE /\ tool' = t
          /\ UNCHANGED <<op, args, fetchSt, issuedAt, timer, response, promise,
                         result, requests, now>>

InvokeForecastTool ==
  \E latitude \in ToolLats, longitude \in ToolLons, days \in ToolDays,
     headerLat \in HeaderLats, headerLon \in HeaderLons, configured \in BOOLEAN :
    LET t == ToolInvocation(ForecastTool, latitude, longitude, days,
                            headerLat, headerLon, configured)
    IN InvokeTool([t EXCEPT !.handler = ForecastToolStart(t)],
                  "getWeatherForecast",
                  [NoArgs EXCEPT !.lat = t.lat, !.lon = t.lon, !.days = t.days])

InvokeConditionsTool ==
  \E latitude \in ToolLats, longitude \in ToolLons,
     headerLat \in HeaderLats, headerLon \in HeaderLons, configured \in BOOLEAN :
    LET t == ToolInvocation(ConditionsTool, latitude, longitude, Undefined,
                            headerLat, headerLon, configured)
    IN InvokeTool([t EXCEPT !.handler = ConditionsToolStart(t)],
                  "getLocationKey",
                  [NoArgs EXCEPT !.lat = t.lat, !.lon = t.lon])

\* mutant: no clearTimeout once the fetch has settled
Cleared_Forgotten(c) == timer[c]

\* the timer of a call once its fetch has settled: clearTimeout(timeoutId)
Cleared(c) == IF c \in TimedCalls THEN "cleared" ELSE timer[c]

\* the operation of call c from the provider's response on
OnResponse(c, resp) ==
  CASE c = "key" -> Catch(getLocationKeyOnResponse(resp))
    [] c = "cond" -> Catch(getCurrentConditionsOnResponse(resp))
    [] c = "fc" -> Catch(getForecastOnResponse(resp, args.days))
    [] OTHER -> Fulfilled(resp)

\* call c's promise settles as q: its caller goes on, and so does the handler
\* of the tool when the operation has settled
Settle(c, st, tm, resp, q) ==
  LET s == Continue(op, args, [promise EXCEPT ![c] = q], result, c)
      n == ToolContinue(tool, op, args, s)
  IN /\ op' = n.op
     /\ args' = n.args
     /\ promise' = n.promise
     /\ result' = n.result
     /\ tool' = n.tool
     /\ Effect(c, st, tm, resp, n.issue)
     /\ UNCHANGED now

\* the provider answers call c
FetchResolves ==
  \E c \in Calls :
    /\ fetchSt[c] = "pending"
    /\ \E resp \in Responses(c) :
         Settle(c, "resolved", Cleared(c), resp, OnResponse(c, resp))

\* the request of call c fails on the network
FetchRejects ==
  \E c \in Calls :
    /\ fetchSt[c] = "pending"
    /\ Settle(c, "rejected", Cleared(c), Undefined,
              IF c \in TimedCalls THEN Catch(Rejected(NetworkError))
              ELSE Rejected(NetworkError))

\* the timer of call c fires: controller.abort() rejects the fetch
TimerFires ==
  \E c \in Calls :
    /\ timer[c] = "armed"
    /\ now >= issuedAt[c] + TIMEOUT_MS
    /\ Settle(c, "aborted", "fired", Undefined, Catch(Rejected(AbortError)))

\* the times at which an armed timer is due
Deadlines == {issuedAt[c] + TIMEOUT_MS : c \in {d \in Calls : timer[d] = "armed"}}

\* time passes while a request is pending, never past a timer that is due
Tick ==
  /\ \E c \in Calls : fetchSt[c] = "pending"
  /\ now < MaxTime
  /\ \A t \in Deadlines : now < t
  /\ now' = SetMin({now + TickMs, MaxTime} \cup Deadlines)
  /\ UNCHANGED <<op, args, fetchSt, issuedAt, timer, response, promise, result,
                 requests, tool>>

Next ==
  \/ InvokeGetLocationKey
  \/ InvokeGetCurrentConditions
  \/ InvokeGetForecast
  \/ InvokeGetWeatherForecast
  \/ FetchResolves
  \/ FetchRejects
  \/ TimerFires
  \/ Tick

Spec == Init /\ [][Next]_vars

\* the server: one tool invocation and what the client does for it
ToolNext ==
  \/ InvokeForecastTool
  \/ InvokeConditionsTool
  \/ FetchResolves
  \/ FetchRejects
  \/ TimerFires
  \/ Tick

SpecTools == Init /\ [][ToolNext]_vars

\* the same with the event loop doing its part: time passes and a timer that
\* is due fires.  Nothing obliges the provider to answer.
FairSpecTools == SpecTools /\ WF_vars(Tick) /\ WF_vars(TimerFires)

(***************************************************************************)
(* Properties.  Ranges are stated on the numbers themselves, not through   *)
(* the comparisons of the code.                                            *)
(***************************************************************************)
Below(v, n) == v.kind = "-Infinity" \/ (v.kind = "finite" /\ v.num < n * v.den)
Above(v, n) == v.kind = "Infinity" \/ (v.kind = "finite" /\ v.num > n * v.den)
\* a number that is NaN or lies outside [lo, hi]
OutsideRange(v, lo, hi) ==
  v.t = "number" /\ (v.kind = "NaN" \/ Below(v, lo) \/ Above(v, hi))
\* a number that is an integer of [lo, hi]
IsIntegerIn(v, lo, hi) ==
  v.t = "number" /\ v.kind = "finite" /\ v.den = 1 /\ lo <= v.num /\ v.num <= hi
Issued(c) == \E i \in 1..Len(requests) : requests[i] = c
IsPrefix(s, l) == Len(s) <= Len(l) /\ s = SubSeq(l, 1, Len(s))
FailedAs(p, kind) == p.st = "rejected" /\ ErrorKind(p.reason) = kind

\* C1: every outbound call, the location-details call included, is bounded by
\* a 30 s timeout: no call is still pending more than 30 s after it was issued,
\* and a call that was cancelled fails with UpstreamTimeout and gives no result.
C1_EveryCallBoundedByTimeout ==
  \A c \in Calls :
    /\ fetchSt[c] = "pending" => now - issuedAt[c] <= TIMEOUT_MS
    /\ fetchSt[c] = "aborted" =>
         /\ FailedAs(promise[c], "UpstreamTimeout")
         /\ result.st = "rejected"

\* C2: getLocationKey with a latitude outside [-90,90] or a longitude outside
\* [-180,180] (NaN and the infinities included) fails with InvalidArgument and
\* no request is issued.
C2_InvalidCoordinateRejected ==
  (/\ op \in {"getLocationKey", "getWeatherForecast"}
   /\ OutsideRange(args.lat, -90, 90) \/ OutsideRange(args.lon, -180, 180))
  => /\ FailedAs(promise["key"], "InvalidArgument")
     /\ result = promise["key"]
     /\ requests = <<>>

C2_Witness ==
  /\ op = "getLocationKey"
  /\ args.lat = Num(90) /\ args.lon = NaN
  /\ FailedAs(result, "InvalidArgument")

\* C3: getForecast with a day count below 1 or above 15 fails with
\* InvalidArgument and the forecast request is never issued.
C3_DaysOutOfRangeRejected ==
  (/\ op \in {"getForecast", "getWeatherForecast"}
   /\ DefaultDays(args.days).kind # "NaN"
   /\ OutsideRange(DefaultDays(args.days), 1, 15))
  => /\ ~Issued("fc")
     /\ promise["fc"].st # "none" => FailedAs(promise["fc"], "InvalidArgument")
     /\ op = "getForecast" =>
          /\ FailedAs(result, "InvalidArgument")
          /\ requests = <<>>

C3_Witness ==
  /\ op = "getForecast"
  /\ args.locationKey = Str("K1") /\ args.days = Num(16)
  /\ FailedAs(result, "InvalidArgument")

\* C4: getForecast accepts a day count only when it is an integer of [1,15]:
\* any other number (a fraction, NaN) fails with InvalidArgument before any
\* request is issued.
C4_OnlyIntegerDaysAccepted ==
  (/\ op = "getForecast"
   /\ args.days.t = "number"
   /\ ~IsIntegerIn(args.days, 1, 15))
  => /\ FailedAs(result, "InvalidArgument")
     /\ requests = <<>>

\* C5: for a day count N of [1,15], the forecast returned has at most N entries
\* and is the beginning of the provider's list, in the provider's order.
C5_ForecastAtMostN ==
  promise["fc"].st = "fulfilled" =>
    /\ IsPrefix(promise["fc"].value, response["fc"].body.DailyForecasts.items)
    /\ ~OutsideRange(DefaultDays(args.days), 1, 15) =>
         Len(promise["fc"].value) * DefaultDays(args.days).den
           <= DefaultDays(args.days).num

C5_Witness ==
  /\ op = "getForecast"
  /\ args.days = Num(2)
  /\ promise["fc"].st = "fulfilled"
  /\ Len(response["fc"].body.DailyForecasts.items) = 3
  /\ Len(promise["fc"].value) = 2

\* C6 as claimed: every bundle of getWeatherForecast has a forecast of exactly
\* the requested number of days.
C6_ForecastLengthEqualsDays ==
  (op = "getWeatherForecast" /\ result.st = "fulfilled") =>
    /\ DefaultDays(args.days).kind = "finite"
    /\ Len(result.value.forecast) * DefaultDays(args.days).den
         = DefaultDays(args.days).num

\* the number of leading entries of a list of len entries that a day count d
\* accepted by getForecast leaves
LeadingCount(d, len) ==
  IF d.kind = "NaN" THEN 0
  ELSE IF d.num \div d.den <= len THEN d.num \div d.den ELSE len

\* C6 as amended: the forecast of a bundle is the first min(floor(N), L)
\* entries of the provider's L entries, in the provider's order (none for NaN):
\* exactly N when N is an integer and the provider sent at least N.
C6_ForecastIsLeadingEntries ==
  (op = "getWeatherForecast" /\ result.st = "fulfilled") =>
    LET L == response["fc"].body.DailyForecasts.items
        D == DefaultDays(args.days)
    IN /\ result.value.forecast = SubSeq(L, 1, LeadingCount(D, Len(L)))
       /\ (IsIntegerIn(D, 1, 15) /\ Len(L) >= D.num) =>
            Len(result.value.forecast) = D.num

C6_Witness ==
  /\ op = "getWeatherForecast"
  /\ result.st = "fulfilled"
  /\ args.days = Num(2)
  /\ Len(response["fc"].body.DailyForecasts.items) = 3
  /\ Len(result.value.forecast) = 2

\* C7, in every state of getWeatherForecast: a second-stage request has been
\* issued only if key resolution succeeded, none after it failed; the forecast
\* request goes with the current-conditions request; the details request comes
\* after both succeeded.
C7_SecondStageAfterKey ==
  op = "getWeatherForecast" =>
    /\ \A c \in {"cond", "fc", "det"} :
         Issued(c) => promise["key"].st = "fulfilled"
    /\ promise["key"].st = "rejected" => requests \in {<<>>, <<"key">>}
    /\ Issued("fc") => Issued("cond") /\ issuedAt["fc"] = issuedAt["cond"]
    /\ Issued("det") =>
         promise["cond"].st = "fulfilled" /\ promise["fc"].st = "fulfilled"

\* C7, in every step: the forecast request is put in flight by the step that
\* puts the current-conditions request in flight, so neither waits for the
\* other's answer.
C7_IssuedTogether ==
  (fetchSt["fc"] = "none" /\ fetchSt'["fc"] = "pending"
   /\ op' = "getWeatherForecast")
  => (fetchSt["cond"] = "none" /\ fetchSt'["cond"] = "pending")

\* C7: getWeatherForecast issues the current-conditions and forecast requests
\* only after key resolution succeeded, both together and unordered, the
\* details request only after the key is resolved, and no second-stage request
\* when key resolution fails.
C7_KeyThenConcurrent == []C7_SecondStageAfterKey /\ [][C7_IssuedTogether]_vars

\* the forecast, issued second, is answered while current conditions is pending
C7_Witness ==
  /\ op = "getWeatherForecast"
  /\ requests = <<"key", "cond", "fc">>
  /\ fetchSt["fc"] = "resolved"
  /\ fetchSt["cond"] = "pending"

\* the errors of the sub-calls of getWeatherForecast that have failed
SubCallErrors ==
  {promise[c].reason : c \in {d \in Calls : promise[d].st = "rejected"}}
  \cup {LocationDetailsError(response[c].status) :
          c \in {d \in {"det"} : response[d] # Undefined /\ ~Ok(response[d])}}

\* C8: getWeatherForecast resolves to a bundle only if all four sub-calls
\* succeeded, the bundle made of their three results; once a sub-call has
\* failed it has failed with the error of a failed sub-call.
C8_NoPartialBundle ==
  op = "getWeatherForecast" =>
    /\ result.st = "fulfilled" =>
         /\ \A c \in Calls : promise[c].st = "fulfilled"
         /\ Ok(response["det"])
         /\ result.value = [location |-> response["det"].body,
                            current |-> promise["cond"].value,
                            forecast |-> promise["fc"].value]
    /\ SubCallErrors # {} =>
         result.st = "rejected" /\ result.reason \in SubCallErrors
    /\ result.st = "rejected" => result.reason \in SubCallErrors

C8_Witness ==
  /\ op = "getWeatherForecast"
  /\ promise["cond"].st = "fulfilled"
  /\ promise["fc"].st = "rejected"
  /\ result = promise["fc"]

\* the promise that carries the failure of call c
FailureOf(c) == IF c = "det" THEN result ELSE promise[c]

\* C9: for each of the four calls, a response with a non-success status makes
\* the operation fail with UpstreamError carrying that status; no result.
C9_HttpErrorStatus ==
  \A c \in Calls :
    (response[c] # Undefined /\ ~Ok(response[c])) =>
      /\ FailedAs(FailureOf(c), "UpstreamError")
      /\ FailureOf(c).reason.status = response[c].status
      /\ result.st = "rejected"
      /\ (op # "getWeatherForecast" \/ c = "key") => result = promise[c]

C9_Witness ==
  /\ op = "getWeatherForecast"
  /\ response["det"] # Undefined
  /\ response["det"].status = 401
  /\ FailedAs(result, "UpstreamError")
  /\ result.reason.status = 401

\* a success body without the field the operation of call c reads
LacksField(c, body) ==
  CASE c = "key" -> body = Null \/ body.Key = Undefined
    [] c = "cond" -> body = Null \/ body.t # "array" \/ body.items = <<>>
    [] OTHER -> body = Null \/ body.DailyForecasts.t # "array"

\* C10: a success response whose body lacks the expected field (Key, a
\* non-empty conditions array, the DailyForecasts list) yields
\* UpstreamProtocolError and no result.
C10_MissingFieldIsProtocolError ==
  \A c \in TimedCalls :
    (/\ response[c] # Undefined
     /\ Ok(response[c])
     /\ LacksField(c, response[c].body))
    => /\ FailedAs(promise[c], "UpstreamProtocolError")
       /\ result.st = "rejected"
       /\ (op # "getWeatherForecast" \/ c = "key") => result = promise[c]

C10_Witness ==
  /\ op = "getCurrentConditions"
  /\ response["cond"] # Undefined
  /\ response["cond"].status = 200
  /\ response["cond"].body = Arr(<<>>)
  /\ FailedAs(result, "UpstreamProtocolError")

\* the number of requests made to the endpoint of call c
RequestCount(c) == Cardinality({i \in 1..Len(requests) : requests[i] = c})
\* the request of call c has failed: on the network, by abort, or by status
RequestFailed(c) ==
  \/ fetchSt[c] \in {"rejected", "aborted"}
  \/ response[c] # Undefined /\ ~Ok(response[c])

\* C11: no retry.  Within one invocation each endpoint is requested at most
\* once, four requests at most, and once a request has failed the operation
\* has failed.
C11_NoRetry ==
  /\ \A c \in Calls : RequestCount(c) <= 1
  /\ Len(requests) <= 4
  /\ \A c \in Calls : RequestFailed(c) => result.st = "rejected"

C11_Witness ==
  /\ op = "getWeatherForecast"
  /\ requests = <<"key", "cond", "fc", "det">>
  /\ fetchSt["det"] = "rejected"
  /\ result = Rejected(NetworkError)

\* C15: once getWeatherForecast has completed, with a bundle or a failure, none
\* of the calls it started is still in flight.
C15_NoCallInFlightAfterReturn ==
  (op = "getWeatherForecast" /\ result.st \in {"fulfilled", "rejected"}) =>
    \A c \in Calls : fetchSt[c] # "pending"

\* C16: in getLocationKey, getCurrentConditions and getForecast, once the
\* operation has returned or thrown its timer is not pending any more, on every
\* exit path; a timer that is still armed belongs to a pending fetch.
C16_TimerClearedOnExit ==
  \A c \in TimedCalls :
    /\ promise[c].st \in {"fulfilled", "rejected"} => timer[c] # "armed"
    /\ timer[c] = "armed" => fetchSt[c] = "pending"
    /\ fetchSt[c] = "aborted" <=> timer[c] = "fired"

\* the HTTP-error exit of getForecast, its timer cleared
C16_Witness ==
  /\ op = "getForecast"
  /\ FailedAs(result, "UpstreamError")
  /\ timer["fc"] = "cleared"

\* a document marked isError that carries a message
IsFailureDoc(d) ==
  /\ DOMAIN d = {"content", "isError"}
  /\ d.isError = TRUE
  /\ Len(d.content) = 1
  /\ d.content[1].type = "text"
  /\ d.content[1].text # <<>>
  /\ \A i \in 1..Len(d.content[1].text) : d.content[1].text[i] # ""
\* a document that is not marked and carries the response
IsSuccessDoc(d) ==
  /\ DOMAIN d = {"content"}
  /\ Len(d.content) = 1
  /\ d.content[1].type = "text"
  /\ "json" \in DOMAIN d.content[1]
\* the handler has returned the document of the failure e
ReturnedFailure(e) ==
  /\ tool.handler.st = "fulfilled"
  /\ IsFailureDoc(tool.handler.value)
  /\ e.message = tool.handler.value.content[1].text[2]
\* the bundle cannot be shaped: no location details, or no forecast entry
Unshapable(bundle) ==
  bundle.location.t \in {"null", "undefined"} \/ Len(bundle.forecast) = 0

\* C12, conversion of failures: no exception escapes a handler; a handler that
\* has returned has returned one document, of success or of failure; every
\* failure of the client's operation and every bundle that cannot be shaped
\* has given the failure document with the error's message.
C12_FailuresConverted ==
  tool.name # "none" =>
    /\ tool.handler.st # "rejected"
    /\ tool.handler.st = "fulfilled" =>
         IsFailureDoc(tool.handler.value) \/ IsSuccessDoc(tool.handler.value)
    /\ result.st = "rejected" => ReturnedFailure(result.reason)
    /\ (tool.name = ForecastTool /\ result.st = "fulfilled") =>
         /\ tool.handler.st = "fulfilled"
         /\ Unshapable(result.value) <=> IsFailureDoc(tool.handler.value)
    /\ (tool.name = ConditionsTool /\ result.st = "fulfilled") =>
         /\ tool.handler.st = "fulfilled"
         /\ IsSuccessDoc(tool.handler.value)

\* a returned document is never replaced by another
C12_ReturnsOnce ==
  (tool.name # "none" /\ tool.handler.st = "fulfilled") => tool' = tool

\* C12: every tool invocation ends with exactly one result document, of
\* success or of failure: the handler returns, once, and what it returns is
\* such a document.
C12_EveryInvocationEndsWithOneDocument ==
  /\ []C12_FailuresConverted
  /\ [][C12_ReturnsOnce]_vars
  /\ (tool.name # "none") ~> (tool.name # "none" /\ tool.handler.st = "fulfilled")

\* an empty forecast list has given the failure document
C12_Witness ==
  /\ tool.name = ForecastTool
  /\ result.st = "fulfilled"
  /\ result.value.location # Null
  /\ result.value.forecast = <<>>
  /\ ReturnedFailure(NoFirstEntryTypeError)

\* the number a header of the model is the decimal writing of, NaN for none
HeaderNumber(header) ==
  CASE header = Text(<<"0">>) -> Num(0)
    [] header = Text(<<" ", "-", "1", ".", "5", "S">>) -> Rat(-15, 10)
    [] OTHER -> NaN
\* equality of numbers, whatever the terms of the fraction
SameNumber(a, b) ==
  /\ a.t = "number" /\ b.t = "number"
  /\ a.kind = b.kind
  /\ a.kind = "finite" => a.num * b.den = b.num * a.den
\* the value v is the one precedence chooses
ChosenBetween(v, argument, header, fallback) ==
  IF argument # Undefined THEN v = argument
  ELSE IF header # Undefined /\ header # Text(<<>>)
  THEN SameNumber(v, HeaderNumber(header))
  ELSE SameNumber(v, fallback)

\* C13: in both tools each coordinate component is the tool argument if given,
\* otherwise the default of the request header if present, otherwise that of
\* the fallback point (-1.2864, 36.8172), latitude and longitude each on its
\* own; the request and the document carry that coordinate.
C13_CoordinatePrecedence ==
  tool.name # "none" =>
    /\ ChosenBetween(tool.lat, tool.latitude, tool.headerLat, Rat(-12864, 10000))
    /\ ChosenBetween(tool.lon, tool.longitude, tool.headerLon, Rat(368172, 10000))
    /\ op # "idle" => args.lat = tool.lat /\ args.lon = tool.lon
    /\ (tool.handler.st = "fulfilled" /\ IsSuccessDoc(tool.handler.value)) =>
         /\ tool.handler.value.content[1].json.location.latitude = tool.lat
         /\ tool.handler.value.content[1].json.location.longitude = tool.lon

\* the latitude from the header, the longitude of the fallback point, and the
\* location key requested for them
C13_Witness ==
  /\ tool.name = ConditionsTool
  /\ tool.latitude = Undefined /\ tool.headerLat = Text(<<" ", "-", "1", ".", "5", "S">>)
  /\ tool.longitude = Undefined /\ tool.headerLon = Undefined
  /\ Issued("key")
  /\ args.lat = Rat(-3, 2)
  /\ SameNumber(args.lon, Rat(368172, 10000))

RECURSIVE DatePart(_)
\* the calendar date of a provider date: its pieces up to the first 'T'
DatePart(pieces) ==
  IF pieces = <<>> \/ Head(pieces) = "T" THEN <<>>
  ELSE <<Head(pieces)>> \o DatePart(Tail(pieces))

\* C14: in the forecast document every entry's date is the part of the
\* provider's date before 'T', in the bundle's order; period.start_date is the
\* date of the first entry and period.end_date that of the last, for every
\* bundle with at least one forecast entry.
C14_DatesOfForecastDocument ==
  (/\ tool.name = ForecastTool
   /\ result.st = "fulfilled"
   /\ result.value.location # Null
   /\ Len(result.value.forecast) >= 1) =>
    /\ tool.handler.st = "fulfilled"
    /\ IsSuccessDoc(tool.handler.value)
    /\ LET doc == tool.handler.value.content[1].json
           given == result.value.forecast
       IN /\ Len(doc.forecast) = Len(given)
          /\ \A i \in 1..Len(given) :
               doc.forecast[i].date = Text(DatePart(given[i].Date.pieces))
          /\ doc.period.start_date = Text(DatePart(given[1].Date.pieces))
          /\ doc.period.end_date = Text(DatePart(given[Len(given)].Date.pieces))

\* a document of three entries that starts and ends on different days
C14_Witness ==
  /\ tool.name = ForecastTool
  /\ tool.handler.st = "fulfilled"
  /\ IsSuccessDoc(tool.handler.value)
  /\ Len(tool.handler.value.content[1].json.forecast) = 3
  /\ tool.handler.value.content[1].json.period.start_date = Text(<<"2025-11-05">>)
  /\ tool.handler.value.content[1].json.period.end_date = Text(<<"2025-11-06">>)

====
